---- MODULE Spec2Model ----
(***************************************************************************)
(* A model of src/backend/pass/pass_base.hpp: the pattern description,     *)
(* pass_base with its metadata, attributes and (de)serialization, and the  *)
(* process-wide pass_registry.                                             *)
(*                                                                         *)
(* Objects live in `heap`: a pass_base_ptr is an index into it (0 is no    *)
(* object).  The bodies of pass_base::pass_base, register_pass and         *)
(* sort_passes, and the JSON writer and reader of utils/json.hpp, are not  *)
(* part of the header; they are modelled from the specification of the     *)
(* subsystem.                                                              *)
(***************************************************************************)
EXTENDS Integers, Sequences, FiniteSets, TLC

\* ------------------------------------------------------------------ bounds
MaxPasses == 3
MaxOpsPasses == 2
MaxOpsAttrs == 1
MaxAttrs == 3
MaxSerAttrs == 1
MaxNodes == 4
NumThreads == 3
NumReaders == 2

\* ------------------------------------------------------- program constants
\* float priority_ {5.0f}
DefaultPriority == 5
\* std::atomic<int> pass_counter {0}
CounterStart == 0

\* ---------------------------------------------------------- input domains
NameOf == <<"A", "B", "C", "D", "E">>
Names(n) == {NameOf[i] : i \in 1..n}
Backends == {"dnnl"}
Priorities == {DefaultPriority, 10}
RoundTripBackends == {"dnnl", "cpu"}
AttrNames == {"x", "y"}
AttrValues == {"v1", "v2"}

\* enum class pass_type { kAnalysis = 0, kTransformation = 1 }
kAnalysis == "kAnalysis"
kTransformation == "kTransformation"
pass_type == {kAnalysis, kTransformation}

\* op_kind_t: the wildcard op_kind::any and two operators
any == "any"
op_kind == {any, "Convolution", "ReLU"}

VARIABLES
    heap,          \* the pass objects, by pass_base_ptr
    passes_,       \* pass_registry::passes_, a list of pass_base_ptr
    passes_map_,   \* pass_registry::passes_map_, name -> pass_base_ptr
    pass_counter,  \* pass_registry::pass_counter
    json,          \* the JSON document: what save wrote, or what the reader holds
    ret,           \* the most recent call: [op, arg, status, ptr]
    registered,    \* history: pass_base_ptr in the order register_pass stored them
    sorted,        \* history: whether sort_passes was ever called
    nodes_,        \* pattern::nodes_, the op kind of each node; a node_t* is its place
    attr_vec,      \* the vector the last get_attr returned
    added,         \* history: the set_attr calls, [ptr, key, value], in call order
    pc,            \* where each registering thread is in register_pass
    find_pass,     \* register_pass's local find_pass, or the pointer a lookup
                   \* returned, per thread
    reg_inst       \* the static reg_inst of pass_registry::get(): how far its
                   \* initialisation is, and how often the constructor has run

vars == <<heap, passes_, passes_map_, pass_counter, json, ret, registered, sorted,
          nodes_, attr_vec, added, pc, find_pass, reg_inst>>
patternVars == <<nodes_>>
attrVars == <<attr_vec, added>>
threadVars == <<pc, find_pass, reg_inst>>
registryVars == <<passes_, passes_map_, pass_counter, registered, sorted>>

\* reg_inst after its one initialisation
Constructed == [guard |-> "done", made |-> 1]

Ptrs == 1..Len(heap)
Call(op, arg, status, ptr) == [op |-> op, arg |-> arg, status |-> status, ptr |-> ptr]
NoCall == Call("none", "", "ok", 0)

\* A failed assert aborts the process, and so does a fault.
Running == ret.status \notin {"assert_abort", "ub_segfault"}

\* --------------------------------------------------------------- pass_base
\* pass_base(ptype, pbackend, pname): index_ is the next value of the counter
pass_base(ptype, pbackend, pname, idx) ==
    [type_ |-> ptype, backend_ |-> pbackend, name_ |-> pname, index_ |-> idx,
     priority_ |-> DefaultPriority, enable_ |-> TRUE, attrs_ |-> <<>>]

get_pass_type(p) == p.type_
get_pass_backend(p) == p.backend_
get_pass_name(p) == p.name_
get_pass_index(p) == p.index_
get_priority(p) == p.priority_
get_enable(p) == p.enable_

set_priority(p, priority) == [p EXCEPT !.priority_ = priority]


\* ------------------------------------------------ attrs_ (unordered_multimap)
\* attrs_ is held in iteration order, a sequence of [key, value]; elements with
\* equivalent keys are adjacent.  Where insert puts an element among its
\* equivalents is left to the library: InsertPositions are the places that keep
\* equivalent keys adjacent.
InsertAt(s, k, e) == SubSeq(s, 1, k) \o <<e>> \o SubSeq(s, k + 1, Len(s))

InsertPositions(s, key) ==
    IF \E i \in 1..Len(s) : s[i].key = key
    THEN {k \in 0..Len(s) : \/ (k >= 1 /\ s[k].key = key)
                            \/ (k < Len(s) /\ s[k + 1].key = key)}
    ELSE {k \in 0..Len(s) : k = 0 \/ k = Len(s) \/ s[k].key # s[k + 1].key}

\* an insert into a map of unique keys: the value under the name is replaced
set_attr_unique(p, attr_name, value, k) ==
    [p EXCEPT !.attrs_ =
        IF \E i \in 1..Len(@) : @[i].key = attr_name
        THEN [i \in 1..Len(@) |->
                 IF @[i].key = attr_name THEN [key |-> attr_name, value |-> value]
                 ELSE @[i]]
        ELSE InsertAt(@, k, [key |-> attr_name, value |-> value])]

\* attrs_.insert(make_pair(attr_name, value)); return *this
set_attr(p, attr_name, value, k) ==
    [p EXCEPT !.attrs_ = InsertAt(@, k, [key |-> attr_name, value |-> value])]

\* the loop of get_attr from position i on
RECURSIVE attr_loop(_, _, _)
attr_loop(attrs, attr_name, i) ==
    IF i > Len(attrs) THEN <<>>
    ELSE IF attrs[i].key = attr_name
         THEN <<attrs[i].value>> \o attr_loop(attrs, attr_name, i + 1)
         ELSE attr_loop(attrs, attr_name, i + 1)

get_attr(p, attr_name) == attr_loop(p.attrs_, attr_name, 1)

\* a has_attr that only looks whether the pass has any attribute
has_attr_any(p, attr_name) == p.attrs_ # <<>>

\* attrs_.find(attr_name) != attrs_.end()
has_attr(p, attr_name) == \E i \in 1..Len(p.attrs_) : p.attrs_[i].key = attr_name

\* ------------------------------------------------------------- save / load
\* A JSON value carries its shape: a string, a number or a boolean.
JString(v) == [tag |-> "string", val |-> v]
JNumber(v) == [tag |-> "number", val |-> v]
JBool(v) == [tag |-> "bool", val |-> v]

\* json_writer: one object, a value under each key written
write_keyvalue(obj, key, value) ==
    [k \in DOMAIN obj \cup {key} |-> IF k = key THEN value ELSE obj[k]]

begin_object == [k \in {} |-> JString("")]

\* a save that also writes the creation index
save_with_index(p) ==
    LET o1 == write_keyvalue(begin_object, "pass_name", JString(p.name_))
        o2 == write_keyvalue(o1, "pass_type",
                  JString(IF p.type_ = kTransformation THEN "Transformation"
                          ELSE "Analysis"))
        o3 == write_keyvalue(o2, "pass_backend", JString(p.backend_))
        o4 == write_keyvalue(o3, "priority", JNumber(p.priority_))
        o5 == write_keyvalue(o4, "enable", JBool(p.enable_))
    IN  write_keyvalue(o5, "index", JNumber(p.index_))

save(p) ==
    LET o1 == write_keyvalue(begin_object, "pass_name", JString(p.name_))
        o2 == IF p.type_ = kTransformation
              THEN write_keyvalue(o1, "pass_type", JString("Transformation"))
              ELSE write_keyvalue(o1, "pass_type", JString("Analysis"))
        o3 == write_keyvalue(o2, "pass_backend", JString(p.backend_))
        o4 == write_keyvalue(o3, "priority", JNumber(p.priority_))
    IN  write_keyvalue(o4, "enable", JBool(p.enable_))

\* the fields load declares without "enable"
declared_fields_short ==
    <<[key |-> "pass_name", tag |-> "string"],
      [key |-> "pass_type", tag |-> "string"],
      [key |-> "pass_backend", tag |-> "string"],
      [key |-> "priority", tag |-> "number"]>>

\* helper.declare_field(key, &member): the key and the shape of the member
\* (std::string name_, type and backend_, float priority_, bool enable_)
declared_fields ==
    <<[key |-> "pass_name", tag |-> "string"],
      [key |-> "pass_type", tag |-> "string"],
      [key |-> "pass_backend", tag |-> "string"],
      [key |-> "priority", tag |-> "number"],
      [key |-> "enable", tag |-> "bool"]>>

\* read_helper: a declared field can be read when the record holds a value of
\* its shape under its key
readable(obj, key, tag) == key \in DOMAIN obj /\ obj[key].tag = tag

\* read_helper: a declared field takes the value the record holds under its key
read_field(obj, key, tag, old) ==
    IF readable(obj, key, tag) THEN obj[key].val ELSE old

\* read_helper::read_fields: every declared field must be read
read_fields(obj, fields) ==
    IF \A i \in 1..Len(fields) : readable(obj, fields[i].key, fields[i].tag)
    THEN "ok"
    ELSE "SerializationError"

\* a load that starts from a fresh pass_base(): the index is lost
load_fresh(p, obj) ==
    [p EXCEPT !.name_ = read_field(obj, "pass_name", "string", @),
              !.backend_ = read_field(obj, "pass_backend", "string", @),
              !.priority_ = read_field(obj, "priority", "number", @),
              !.enable_ = read_field(obj, "enable", "bool", @),
              !.index_ = 0]

\* a load that empties the pass first: attributes and index are reset
load_reset(p, obj) ==
    [p EXCEPT !.name_ = read_field(obj, "pass_name", "string", @),
              !.backend_ = read_field(obj, "pass_backend", "string", @),
              !.priority_ = read_field(obj, "priority", "number", @),
              !.enable_ = read_field(obj, "enable", "bool", @),
              !.index_ = 0,
              !.attrs_ = <<>>]

\* a load that takes the kind from "pass_type"
load_with_type(p, obj) ==
    [p EXCEPT !.name_ = read_field(obj, "pass_name", "string", @),
              !.type_ = IF read_field(obj, "pass_type", "string", "") = "Analysis"
                        THEN kAnalysis ELSE kTransformation,
              !.backend_ = read_field(obj, "pass_backend", "string", @),
              !.priority_ = read_field(obj, "priority", "number", @),
              !.enable_ = read_field(obj, "enable", "bool", @)]

\* "pass_type" is read into the local `type`; type_, index_ and attrs_ are
\* not assigned
load(p, obj) ==
    LET type == read_field(obj, "pass_type", "string", "")
    IN  [p EXCEPT !.name_ = read_field(obj, "pass_name", "string", @),
                  !.backend_ = read_field(obj, "pass_backend", "string", @),
                  !.priority_ = read_field(obj, "priority", "number", @),
                  !.enable_ = read_field(obj, "enable", "bool", @)]

\* helper.read_fields(reader): how the call ends
load_status(obj) == read_fields(obj, declared_fields)

\* ----------------------------------------------------------- pass_registry
\* an increment that is lost
fetch_add_lost(counter) == [old |-> counter, new |-> counter]

\* pass_counter++ on std::atomic<int>: one indivisible read-modify-write
fetch_add(counter) == [old |-> counter, new |-> counter + 1]

\* a sort that only keeps the present order of the passes of equal priority
RECURSIVE insert_stable_only(_, _, _)
insert_stable_only(s, x, h) ==
    IF s = <<>> THEN <<x>>
    ELSE IF get_priority(h[Head(s)]) >= get_priority(h[x])
         THEN <<Head(s)>> \o insert_stable_only(Tail(s), x, h)
         ELSE <<x>> \o s

\* a sort whose comparison also holds between passes of equal priority
RECURSIVE insert_before_equal(_, _, _)
insert_before_equal(s, x, h) ==
    IF s = <<>> THEN <<x>>
    ELSE IF get_priority(h[x]) >= get_priority(h[Head(s)])
         THEN <<x>> \o s
         ELSE <<Head(s)>> \o insert_before_equal(Tail(s), x, h)

\* the order of the catalog: higher priority first, and of two passes of equal
\* priority the one registered first (the lower creation index)
comes_before(a, b) ==
    \/ get_priority(a) > get_priority(b)
    \/ get_priority(a) = get_priority(b) /\ get_pass_index(a) < get_pass_index(b)

RECURSIVE insert_by_priority(_, _, _)
insert_by_priority(s, x, h) ==
    IF s = <<>> THEN <<x>>
    ELSE IF comes_before(h[x], h[Head(s)])
         THEN <<x>> \o s
         ELSE <<Head(s)>> \o insert_by_priority(Tail(s), x, h)

RECURSIVE sort_list(_, _)
sort_list(s, h) ==
    IF s = <<>> THEN <<>>
    ELSE insert_by_priority(sort_list(SubSeq(s, 1, Len(s) - 1), h), s[Len(s)], h)

get_passes == passes_

map_insert(m, key, ptr) == [k \in DOMAIN m \cup {key} |-> IF k = key THEN ptr ELSE m[k]]

\* a registration that replaces the pass stored under a name already present
register_pass_overwrite(backend_name, pass_name, ptype) ==
    /\ Running
    /\ LET c == [old |-> pass_counter, new |-> pass_counter + 1]
           ptr == Len(heap) + 1
       IN  /\ pass_counter' = c.new
           /\ heap' = Append(heap, pass_base(ptype, backend_name, pass_name, c.old))
           /\ passes_' = Append(passes_, ptr)
           /\ passes_map_' = map_insert(passes_map_, pass_name, ptr)
           /\ registered' = Append(registered, ptr)
           /\ ret' = Call("register_pass", pass_name, "ok", ptr)
    /\ UNCHANGED <<json, sorted>>
    /\ UNCHANGED <<patternVars, attrVars, threadVars>>

\* register_pass(backend_name, pass_name, fn); fn constructs a pass of `ptype`.
\* A name already present is refused.
\* a register_pass that returns a copy of the pass it stored
register_pass_copy(backend_name, pass_name, ptype) ==
    /\ Running
    /\ IF pass_name \in DOMAIN passes_map_
       THEN /\ ret' = Call("register_pass", pass_name, "DuplicateRegistration", 0)
            /\ UNCHANGED <<heap, passes_, passes_map_, pass_counter, registered>>
       ELSE LET c == fetch_add(pass_counter)
                ptr == Len(heap) + 1
                stored == pass_base(ptype, backend_name, pass_name, c.old)
            IN  /\ pass_counter' = c.new
                /\ heap' = heap \o <<stored, stored>>
                /\ passes_' = Append(passes_, ptr)
                /\ passes_map_' = map_insert(passes_map_, pass_name, ptr)
                /\ registered' = Append(registered, ptr)
                /\ ret' = Call("register_pass", pass_name, "ok", ptr + 1)
    /\ UNCHANGED <<json, sorted>>
    /\ UNCHANGED <<patternVars, attrVars, threadVars>>

register_pass(backend_name, pass_name, ptype) ==
    /\ Running
    /\ IF pass_name \in DOMAIN passes_map_
       THEN /\ ret' = Call("register_pass", pass_name, "DuplicateRegistration", 0)
            /\ UNCHANGED <<heap, passes_, passes_map_, pass_counter, registered>>
       ELSE LET c == fetch_add(pass_counter)
                ptr == Len(heap) + 1
            IN  /\ pass_counter' = c.new
                /\ heap' = Append(heap, pass_base(ptype, backend_name, pass_name, c.old))
                /\ passes_' = Append(passes_, ptr)
                /\ passes_map_' = map_insert(passes_map_, pass_name, ptr)
                /\ registered' = Append(registered, ptr)
                /\ ret' = Call("register_pass", pass_name, "ok", ptr)
    /\ UNCHANGED <<json, sorted>>
    /\ UNCHANGED <<patternVars, attrVars, threadVars>>

sort_passes ==
    /\ Running
    /\ passes_' = sort_list(passes_, heap)
    /\ sorted' = TRUE
    /\ ret' = Call("sort_passes", "", "ok", 0)
    /\ UNCHANGED <<heap, passes_map_, pass_counter, json, registered>>
    /\ UNCHANGED <<patternVars, attrVars, threadVars>>

\* it = passes_map_.find(pass_name); assert(it != end); return it->second.
\* With the assert compiled out (NDEBUG) the end iterator is dereferenced.
NotFoundOutcomes == {"assert_abort", "ub_invalid_ref", "ub_segfault"}

\* a lookup by passes_map_[pass_name], which puts an empty entry under a name
\* it does not find
get_pass_ptr_subscript(pass_name) ==
    /\ Running
    /\ IF pass_name \in DOMAIN passes_map_
       THEN /\ ret' = Call("get_pass_ptr", pass_name, "ok", passes_map_[pass_name])
            /\ UNCHANGED passes_map_
       ELSE /\ ret' = Call("get_pass_ptr", pass_name, "ok", 0)
            /\ passes_map_' = map_insert(passes_map_, pass_name, 0)
    /\ UNCHANGED <<heap, passes_, pass_counter, json, registered, sorted>>
    /\ UNCHANGED <<patternVars, attrVars>>

get_pass_ptr_call(pass_name) ==
    /\ Running
    /\ IF pass_name \in DOMAIN passes_map_
       THEN ret' = Call("get_pass_ptr", pass_name, "ok", passes_map_[pass_name])
       ELSE \E o \in NotFoundOutcomes : ret' = Call("get_pass_ptr", pass_name, o, 0)
    /\ UNCHANGED <<heap, passes_, passes_map_, pass_counter, json, registered, sorted>>
    /\ UNCHANGED <<patternVars, attrVars>>

\* the call made by the one thread of a program
get_pass_ptr(pass_name) == get_pass_ptr_call(pass_name) /\ UNCHANGED threadVars

\* ----------------------------------------- calls on the passes of the registry
\* a set_priority that moves the pass to its place in the catalog at once
SetPriorityResort(ptr, priority) ==
    /\ Running
    /\ heap' = [heap EXCEPT ![ptr] = set_priority(@, priority)]
    /\ passes_' = sort_list(passes_, heap')
    /\ ret' = NoCall
    /\ UNCHANGED <<passes_map_, pass_counter, json, registered, sorted>>
    /\ UNCHANGED <<patternVars, attrVars, threadVars>>

SetPriority(ptr, priority) ==
    /\ Running
    /\ heap' = [heap EXCEPT ![ptr] = set_priority(@, priority)]
    /\ ret' = NoCall
    /\ UNCHANGED <<passes_, passes_map_, pass_counter, json, registered, sorted>>
    /\ UNCHANGED <<patternVars, attrVars, threadVars>>

RECURSIVE SumLen(_, _)
SumLen(h, i) == IF i > Len(h) THEN 0 ELSE Len(h[i].attrs_) + SumLen(h, i + 1)

SetAttr(ptr, attr_name, value) ==
    /\ Running
    /\ \E k \in InsertPositions(heap[ptr].attrs_, attr_name) :
           heap' = [heap EXCEPT ![ptr] = set_attr(@, attr_name, value, k)]
    /\ added' = Append(added, [ptr |-> ptr, key |-> attr_name, value |-> value])
    /\ ret' = NoCall
    /\ UNCHANGED <<passes_, passes_map_, pass_counter, json, registered, sorted>>
    /\ UNCHANGED <<patternVars, attr_vec, threadVars>>

Save(ptr) ==
    /\ Running
    /\ json' = <<save(heap[ptr])>>
    /\ ret' = Call("save", "", "ok", ptr)
    /\ UNCHANGED <<heap, passes_, passes_map_, pass_counter, registered, sorted>>
    /\ UNCHANGED <<patternVars, attrVars, threadVars>>

Load(ptr, obj) ==
    /\ Running
    /\ heap' = [heap EXCEPT ![ptr] = load(@, obj)]
    /\ ret' = Call("load", "", load_status(obj), ptr)
    /\ UNCHANGED <<passes_, passes_map_, pass_counter, json, registered, sorted>>
    /\ UNCHANGED <<patternVars, attrVars, threadVars>>

\* virtual void run(graph &agraph) {}
Run(ptr) ==
    /\ Running
    /\ ret' = Call("run", "", "ok", ptr)
    /\ UNCHANGED <<heap, passes_, passes_map_, pass_counter, json, registered, sorted>>
    /\ UNCHANGED <<patternVars, attrVars, threadVars>>

\* register_pass(...).set_priority(...).set_attr(...): calls on the reference
\* that register_pass, or the call before in the chain, returned
Chained == ret.op \in {"register_pass", "chained"} /\ ret.status = "ok"

ChainSetPriority(priority) ==
    /\ Running
    /\ Chained
    /\ heap' = [heap EXCEPT ![ret.ptr] = set_priority(@, priority)]
    /\ ret' = Call("chained", ret.arg, "ok", ret.ptr)
    /\ UNCHANGED <<passes_, passes_map_, pass_counter, json, registered, sorted>>
    /\ UNCHANGED <<patternVars, attrVars, threadVars>>

ChainSetAttr(attr_name, value) ==
    /\ Running
    /\ Chained
    /\ \E k \in InsertPositions(heap[ret.ptr].attrs_, attr_name) :
           heap' = [heap EXCEPT ![ret.ptr] = set_attr(@, attr_name, value, k)]
    /\ added' = Append(added, [ptr |-> ret.ptr, key |-> attr_name, value |-> value])
    /\ ret' = Call("chained", ret.arg, "ok", ret.ptr)
    /\ UNCHANGED <<passes_, passes_map_, pass_counter, json, registered, sorted>>
    /\ UNCHANGED <<patternVars, attr_vec, threadVars>>

\* ------------------------------------------------- the registry, one thread
Init ==
    /\ heap = <<>>
    /\ passes_ = <<>>
    /\ passes_map_ = [k \in {} |-> 0]
    /\ pass_counter = CounterStart
    /\ json = <<>>
    /\ ret = NoCall
    /\ registered = <<>>
    /\ sorted = FALSE
    /\ nodes_ = <<>>
    /\ attr_vec = <<>>
    /\ added = <<>>
    /\ pc = <<>>
    /\ find_pass = <<>>
    /\ reg_inst = Constructed

\* registration through transformation_pass::create, sorting, lookups and
\* priorities
Next ==
    \/ \E b \in Backends, n \in Names(MaxPasses) :
           Len(heap) < MaxPasses /\ register_pass(b, n, kTransformation)
    \/ sort_passes
    \/ \E n \in Names(MaxPasses) : get_pass_ptr(n)
    \/ \E p \in Ptrs, pr \in Priorities : SetPriority(p, pr)

Spec == Init /\ [][Next]_vars

\* The registry with every call on its passes.  The reader hands load a record
\* written for another pass: a name the registry may hold already, the other
\* type, another priority, disabled.
ReaderInputs ==
    {[pass_name |-> JString(NameOf[1]), pass_type |-> JString("Analysis"),
      pass_backend |-> JString("dnnl"), priority |-> JNumber(10),
      enable |-> JBool(FALSE)]}

NextOps ==
    \/ \E b \in Backends, n \in Names(MaxOpsPasses) :
           Len(heap) < MaxOpsPasses /\ register_pass(b, n, kTransformation)
    \/ sort_passes
    \/ \E n \in Names(MaxOpsPasses) : get_pass_ptr(n)
    \/ \E p \in Ptrs, pr \in Priorities : SetPriority(p, pr)
    \/ \E p \in Ptrs, a \in {"x"}, v \in {"v1"} :
           SumLen(heap, 1) < MaxOpsAttrs /\ SetAttr(p, a, v)
    \/ \E p \in Ptrs, obj \in ReaderInputs : Load(p, obj)
    \/ \E pr \in Priorities : ChainSetPriority(pr)
    \/ SumLen(heap, 1) < MaxOpsAttrs /\ ChainSetAttr("x", "v1")

SpecOps == Init /\ [][NextOps]_vars

\* ------------------------------------------------------------------ pattern
\* nodes_.push_back(make_shared<node_t>(aop_kind)); return nodes_.back().get()
create_node(aop_kind) ==
    /\ Running
    /\ nodes_' = Append(nodes_, aop_kind)
    /\ ret' = Call("create_node", aop_kind, "ok", Len(nodes_) + 1)
    /\ UNCHANGED <<heap, json, registryVars, attrVars, threadVars>>

\* a search that stops at the first node, whatever its kind
find_first(nodes, i) == i

\* std::find_if from position i with the predicate get_op_kind() != op_kind::any;
\* Len(nodes) + 1 is nodes_.end()
RECURSIVE find_if(_, _)
find_if(nodes, i) ==
    IF i > Len(nodes) THEN Len(nodes) + 1
    ELSE IF nodes[i] # any THEN i
         ELSE find_if(nodes, i + 1)

\* return it->get(), with no test of it against nodes_.end(): at end() the
\* position past the last node is read
PastEndOutcomes == {"ub_invalid_node", "ub_segfault"}

get_starter_node ==
    /\ Running
    /\ LET it == find_if(nodes_, 1)
       IN  IF it <= Len(nodes_)
           THEN ret' = Call("get_starter_node", "", "ok", it)
           ELSE \E o \in PastEndOutcomes : ret' = Call("get_starter_node", "", o, 0)
    /\ UNCHANGED <<heap, json, registryVars, patternVars, attrVars, threadVars>>

NextPattern ==
    \/ \E k \in op_kind : Len(nodes_) < MaxNodes /\ create_node(k)
    \/ get_starter_node

SpecPattern == Init /\ [][NextPattern]_vars

\* ----------------------------------------------- the attributes of one pass
GetAttr(ptr, attr_name) ==
    /\ Running
    /\ attr_vec' = get_attr(heap[ptr], attr_name)
    /\ ret' = Call("get_attr", attr_name, "ok", ptr)
    /\ UNCHANGED <<heap, json, registryVars, patternVars, added, threadVars>>

HasAttr(ptr, attr_name) ==
    /\ Running
    /\ ret' = Call("has_attr", attr_name,
                   IF has_attr(heap[ptr], attr_name) THEN "true" ELSE "false", ptr)
    /\ UNCHANGED <<heap, json, registryVars, patternVars, attrVars, threadVars>>

\* one pass made by transformation_pass::create, not registered
InitAttr ==
    /\ heap = <<pass_base(kTransformation, "dnnl", NameOf[1], CounterStart)>>
    /\ passes_ = <<>>
    /\ passes_map_ = [k \in {} |-> 0]
    /\ pass_counter = CounterStart + 1
    /\ json = <<>>
    /\ ret = NoCall
    /\ registered = <<>>
    /\ sorted = FALSE
    /\ nodes_ = <<>>
    /\ attr_vec = <<>>
    /\ added = <<>>
    /\ pc = <<>>
    /\ find_pass = <<>>
    /\ reg_inst = Constructed

NextAttr ==
    \/ \E a \in AttrNames, v \in AttrValues :
           Len(heap[1].attrs_) < MaxAttrs /\ SetAttr(1, a, v)
    \/ \E a \in AttrNames : GetAttr(1, a)
    \/ \E a \in AttrNames : HasAttr(1, a)

SpecAttr == InitAttr /\ [][NextAttr]_vars

\* ------------------------------------------- save on one pass, load on another
\* Two passes with any metadata a pass can hold (a record loaded earlier may
\* have set any name, backend, priority and enable flag).
PassStates(idx) ==
    {[type_ |-> t, backend_ |-> b, name_ |-> n, index_ |-> idx,
      priority_ |-> pr, enable_ |-> e, attrs_ |-> <<>>] :
        t \in pass_type, b \in RoundTripBackends, n \in Names(2),
        pr \in Priorities, e \in BOOLEAN}

InitRoundTrip ==
    /\ \E p \in PassStates(CounterStart), q \in PassStates(CounterStart + 1) :
           heap = <<p, q>>
    /\ passes_ = <<>>
    /\ passes_map_ = [k \in {} |-> 0]
    /\ pass_counter = CounterStart + 2
    /\ json = <<>>
    /\ ret = NoCall
    /\ registered = <<>>
    /\ sorted = FALSE
    /\ nodes_ = <<>>
    /\ attr_vec = <<>>
    /\ added = <<>>
    /\ pc = <<>>
    /\ find_pass = <<>>
    /\ reg_inst = Constructed

NextRoundTrip ==
    \/ \E p \in Ptrs : Save(p)
    \/ \E p \in Ptrs : json # <<>> /\ Load(p, json[1])

SpecRoundTrip == InitRoundTrip /\ [][NextRoundTrip]_vars

\* ------------------------------------- save, load and run on one used pass
FieldKeys == {"pass_name", "pass_type", "pass_backend", "priority", "enable"}

\* A record as save writes it, with values no constructed pass has.
GoodRecord ==
    [pass_name |-> JString(NameOf[2]), pass_type |-> JString("Analysis"),
     pass_backend |-> JString("cpu"), priority |-> JNumber(10),
     enable |-> JBool(FALSE)]

\* The same value in a shape its field does not have.
Malformed(key) ==
    IF key \in {"priority", "enable"} THEN JString("high") ELSE JNumber(0)

\* What a reader can hold: the whole record, the record without one field, the
\* record with one field of the wrong shape, and the empty record.
LoadInputs ==
    {GoodRecord, begin_object}
    \cup {[k \in FieldKeys \ {d} |-> GoodRecord[k]] : d \in FieldKeys}
    \cup {[GoodRecord EXCEPT ![d] = Malformed(d)] : d \in FieldKeys}

\* the reader is opened on a document
ReadFile(obj) ==
    /\ Running
    /\ json' = <<obj>>
    /\ ret' = NoCall
    /\ UNCHANGED <<heap, passes_, passes_map_, pass_counter, registered, sorted>>
    /\ UNCHANGED <<patternVars, attrVars, threadVars>>

\* One pass as its constructor leaves it, of either kind, not registered.
InitSerialize ==
    /\ \E t \in pass_type : heap = <<pass_base(t, "dnnl", NameOf[1], CounterStart)>>
    /\ passes_ = <<>>
    /\ passes_map_ = [k \in {} |-> 0]
    /\ pass_counter = CounterStart + 1
    /\ json = <<>>
    /\ ret = NoCall
    /\ registered = <<>>
    /\ sorted = FALSE
    /\ nodes_ = <<>>
    /\ attr_vec = <<>>
    /\ added = <<>>
    /\ pc = <<>>
    /\ find_pass = <<>>
    /\ reg_inst = Constructed

NextSerialize ==
    \/ \E pr \in Priorities : SetPriority(1, pr)
    \/ \E a \in AttrNames : Len(heap[1].attrs_) < MaxSerAttrs /\ SetAttr(1, a, "v1")
    \/ Run(1)
    \/ Save(1)
    \/ \E obj \in LoadInputs : ReadFile(obj)
    \/ json # <<>> /\ Load(1, json[1])

SpecSerialize == InitSerialize /\ [][NextSerialize]_vars

\* -------------------------------- register_pass called by several threads
\* Thread t registers the name NameOf[t].  fn(backend_name, pass_name) runs the
\* constructor, which takes the next value of the counter; then the pass is
\* appended to passes_; then it is put into passes_map_.
Threads == 1..NumThreads

Construct(t) ==
    /\ pc[t] = "call"
    /\ LET c == fetch_add(pass_counter)
       IN  /\ pass_counter' = c.new
           /\ heap' = Append(heap, pass_base(kTransformation, "dnnl", NameOf[t], c.old))
    /\ find_pass' = [find_pass EXCEPT ![t] = Len(heap) + 1]
    /\ pc' = [pc EXCEPT ![t] = "constructed"]
    /\ UNCHANGED <<passes_, passes_map_, registered, sorted>>
    /\ UNCHANGED <<json, ret, patternVars, attrVars, reg_inst>>

PushBack(t) ==
    /\ pc[t] = "constructed"
    /\ passes_' = Append(passes_, find_pass[t])
    /\ registered' = Append(registered, find_pass[t])
    /\ pc' = [pc EXCEPT ![t] = "listed"]
    /\ UNCHANGED <<heap, passes_map_, pass_counter, sorted, find_pass>>
    /\ UNCHANGED <<json, ret, patternVars, attrVars, reg_inst>>

MapInsert(t) ==
    /\ pc[t] = "listed"
    /\ passes_map_' = map_insert(passes_map_, NameOf[t], find_pass[t])
    /\ pc' = [pc EXCEPT ![t] = "done"]
    /\ UNCHANGED <<heap, passes_, pass_counter, registered, sorted, find_pass>>
    /\ UNCHANGED <<json, ret, patternVars, attrVars, reg_inst>>

InitThreads ==
    /\ heap = <<>>
    /\ passes_ = <<>>
    /\ passes_map_ = [k \in {} |-> 0]
    /\ pass_counter = CounterStart
    /\ json = <<>>
    /\ ret = NoCall
    /\ registered = <<>>
    /\ sorted = FALSE
    /\ nodes_ = <<>>
    /\ attr_vec = <<>>
    /\ added = <<>>
    /\ pc = [t \in Threads |-> "call"]
    /\ find_pass = [t \in Threads |-> 0]
    /\ reg_inst = Constructed

NextThreads ==
    \/ \E t \in Threads : Construct(t)
    \/ \E t \in Threads : PushBack(t)
    \/ \E t \in Threads : MapInsert(t)

SpecThreads == InitThreads /\ [][NextThreads]_vars

\* ------------------- lookups by several threads after registration and sort
Readers == 1..NumReaders

\* const std::list<pass_base_ptr> &get_passes() { return passes_; }
ReaderGetPasses(t) ==
    /\ Running
    /\ ret' = Call("get_passes", "", "ok", 0)
    /\ pc' = [pc EXCEPT ![t] = "get_passes"]
    /\ find_pass' = [find_pass EXCEPT ![t] = 0]
    /\ UNCHANGED <<heap, passes_, passes_map_, pass_counter, json, registered, sorted>>
    /\ UNCHANGED <<patternVars, attrVars, reg_inst>>

ReaderGetPassPtr(t, pass_name) ==
    /\ get_pass_ptr_call(pass_name)
    /\ pc' = [pc EXCEPT ![t] = "get_pass_ptr"]
    /\ find_pass' = [find_pass EXCEPT ![t] = ret'.ptr]
    /\ UNCHANGED reg_inst

\* The registry after its registration and sort phase: up to MaxPasses passes
\* registered one after another, priorities set, the catalog sorted.
InitReaders ==
    /\ \E n \in 0..MaxPasses :
         \E prio \in [1..n -> Priorities] :
           /\ heap = [i \in 1..n |->
                        set_priority(pass_base(kTransformation, "dnnl", NameOf[i],
                                               CounterStart + i - 1), prio[i])]
           /\ passes_ = sort_list([i \in 1..n |-> i], heap)
           /\ passes_map_ = [k \in Names(n) |-> CHOOSE i \in 1..n : NameOf[i] = k]
           /\ pass_counter = CounterStart + n
           /\ registered = [i \in 1..n |-> i]
    /\ sorted = TRUE
    /\ json = <<>>
    /\ ret = NoCall
    /\ nodes_ = <<>>
    /\ attr_vec = <<>>
    /\ added = <<>>
    /\ pc = [t \in Readers |-> "idle"]
    /\ find_pass = [t \in Readers |-> 0]
    /\ reg_inst = Constructed

NextReaders ==
    \/ \E t \in Readers : ReaderGetPasses(t)
    \/ \E t \in Readers, n \in Names(MaxPasses) : ReaderGetPassPtr(t, n)

SpecReaders == InitReaders /\ [][NextReaders]_vars

\* ------------------------- the first calls of pass_registry::get(), by threads
\* static pass_registry reg_inst: the first thread to reach the declaration
\* initialises it; a thread that reaches it meanwhile waits (C++11 [stmt.dcl]).

\* a check that lets a thread in while another is still initialising
static_init_unguarded(guard) == guard \in {"uninit", "running"}

\* whether a thread reaching the declaration is the one to initialise
static_init(guard) == guard = "uninit"

GetEnter(t) ==
    /\ pc[t] = "get"
    /\ static_init(reg_inst.guard)
    /\ reg_inst' = [reg_inst EXCEPT !.guard = "running"]
    /\ pc' = [pc EXCEPT ![t] = "constructing"]
    /\ UNCHANGED <<heap, passes_, passes_map_, pass_counter, registered, sorted>>
    /\ UNCHANGED <<json, ret, patternVars, attrVars, find_pass>>

\* pass_registry() = default: empty passes_ and passes_map_, pass_counter {0}
GetConstruct(t) ==
    /\ pc[t] = "constructing"
    /\ passes_' = <<>>
    /\ passes_map_' = [k \in {} |-> 0]
    /\ pass_counter' = CounterStart
    /\ reg_inst' = [guard |-> "done", made |-> reg_inst.made + 1]
    /\ pc' = [pc EXCEPT ![t] = "call"]
    /\ UNCHANGED <<heap, registered, sorted>>
    /\ UNCHANGED <<json, ret, patternVars, attrVars, find_pass>>

\* return &reg_inst, once it is initialised
GetReturn(t) ==
    /\ pc[t] = "get"
    /\ reg_inst.guard = "done"
    /\ pc' = [pc EXCEPT ![t] = "call"]
    /\ UNCHANGED <<heap, passes_, passes_map_, pass_counter, registered, sorted>>
    /\ UNCHANGED <<json, ret, patternVars, attrVars, find_pass, reg_inst>>

InitSingleton ==
    /\ heap = <<>>
    /\ passes_ = <<>>
    /\ passes_map_ = [k \in {} |-> 0]
    /\ pass_counter = CounterStart
    /\ json = <<>>
    /\ ret = NoCall
    /\ registered = <<>>
    /\ sorted = FALSE
    /\ nodes_ = <<>>
    /\ attr_vec = <<>>
    /\ added = <<>>
    /\ pc = [t \in Threads |-> "get"]
    /\ find_pass = [t \in Threads |-> 0]
    /\ reg_inst = [guard |-> "uninit", made |-> 0]

\* each thread: pass_registry::get()->register_pass(backend, NameOf[t], fn)
NextSingleton ==
    \/ \E t \in Threads : GetEnter(t)
    \/ \E t \in Threads : GetConstruct(t)
    \/ \E t \in Threads : GetReturn(t)
    \/ \E t \in Threads : Construct(t)
    \/ \E t \in Threads : PushBack(t)
    \/ \E t \in Threads : MapInsert(t)

SpecSingleton == InitSingleton /\ [][NextSingleton]_vars

\* ------------------------------------------------------------------ claims
IsPrefix(s, t) == Len(s) <= Len(t) /\ SubSeq(t, 1, Len(s)) = s
Range(s) == {s[i] : i \in 1..Len(s)}
NamesOf(s) == [i \in 1..Len(s) |-> get_pass_name(heap[s[i]])]
PrioritiesOf(s) == [i \in 1..Len(s) |-> get_priority(heap[s[i]])]

\* C1: right after sort_passes(), get_passes() lists every registered pass
\* once, by descending priority, and passes of equal priority by ascending
\* creation index.
C1_SortedStable ==
    ret.op = "sort_passes" =>
        /\ Len(get_passes) = Len(registered)
        /\ Range(get_passes) = Range(registered)
        /\ \A i, j \in 1..Len(get_passes) : i < j =>
               LET a == heap[get_passes[i]]
                   b == heap[get_passes[j]]
               IN  \/ get_priority(a) > get_priority(b)
                   \/ /\ get_priority(a) = get_priority(b)
                      /\ get_pass_index(a) < get_pass_index(b)

\* A(5), B(10), C(5) registered in that order and sorted: [B, A, C]
C1_Witness ==
    /\ ret.op = "sort_passes"
    /\ NamesOf(registered) = <<"A", "B", "C">>
    /\ PrioritiesOf(registered) = <<5, 10, 5>>
    /\ NamesOf(get_passes) = <<"B", "A", "C">>

\* C3: a register_pass under a name the registry holds already ends in
\* DuplicateRegistration and changes neither the map (the first pass stays the
\* one found under the name) nor the catalog nor any pass.
C3_DuplicateRejected ==
    [][(ret'.op = "register_pass" /\ ret'.arg \in DOMAIN passes_map_) =>
           /\ ret'.status = "DuplicateRegistration"
           /\ passes_map_' = passes_map_
           /\ get_passes' = get_passes
           /\ heap' = heap]_vars

C3_Witness ==
    /\ ret.op = "register_pass"
    /\ ret.status = "DuplicateRegistration"
    /\ ret.arg \in DOMAIN passes_map_
    /\ Cardinality({i \in 1..Len(get_passes) :
                        get_pass_name(heap[get_passes[i]]) = ret.arg}) = 1

\* C4: get_pass_ptr of a name that is not registered ends in an explicit
\* failure, in every build; it never hands back a reference.
C4_LookupFails ==
    (ret.op = "get_pass_ptr" /\ ret.arg \notin DOMAIN passes_map_) =>
        ret.status \in {"LookupError", "assert_abort"}

C10_OrderKept ==
    /\ [](~sorted => get_passes = registered)
    /\ [][ret'.op # "sort_passes" => IsPrefix(get_passes, get_passes')]_vars

\* after a sort, set_priority has left the catalog out of priority order
C10_Witness ==
    /\ sorted
    /\ ret.op # "sort_passes"
    /\ Len(get_passes) = 2
    /\ get_priority(heap[get_passes[1]]) < get_priority(heap[get_passes[2]])
    /\ get_passes # registered

\* C2: a pass that loads the record another pass saved holds that pass's name,
\* kind, backend, priority and enable flag.
C2_RoundTrip ==
    \A src \in Ptrs :
        (ret.op = "load" /\ json = <<save(heap[src])>>) =>
            LET p == heap[src]
                q == heap[ret.ptr]
            IN  /\ get_pass_name(q) = get_pass_name(p)
                /\ get_pass_type(q) = get_pass_type(p)
                /\ get_pass_backend(q) = get_pass_backend(p)
                /\ get_priority(q) = get_priority(p)
                /\ get_enable(q) = get_enable(p)

\* C5 as stated: get_attr(name) returns the values added under the name in the
\* order of the set_attr calls.
AddedUnder(ptr, attr_name) ==
    LET calls == SelectSeq(added, LAMBDA e : e.ptr = ptr /\ e.key = attr_name)
    IN  [i \in 1..Len(calls) |-> calls[i].value]

Count(s, v) == Cardinality({i \in 1..Len(s) : s[i] = v})

AllDone == \A t \in Threads : pc[t] = "done"

C6_AllRegistered ==
    AllDone =>
        /\ Len(get_passes) = NumThreads
        /\ Cardinality(Range(get_passes)) = NumThreads
        /\ \A t \in Threads :
               /\ NameOf[t] \in DOMAIN passes_map_
               /\ passes_map_[NameOf[t]] \in Range(get_passes)
               /\ get_pass_name(heap[passes_map_[NameOf[t]]]) = NameOf[t]
        /\ Cardinality({get_pass_index(heap[get_passes[i]]) :
                            i \in 1..Len(get_passes)}) = NumThreads

\* the calls overlapped: the catalog is not in the order of the indices
C6_Witness ==
    /\ AllDone
    /\ Len(get_passes) >= 2
    /\ get_pass_index(heap[get_passes[1]]) > get_pass_index(heap[get_passes[2]])

\* C8: on a pattern with a node that is not the wildcard, get_starter_node()
\* returns the earliest such node.
C8_FirstNonWildcard ==
    (ret.op = "get_starter_node" /\ \E i \in 1..Len(nodes_) : nodes_[i] # any) =>
        /\ ret.status = "ok"
        /\ ret.ptr \in 1..Len(nodes_)
        /\ nodes_[ret.ptr] # any
        /\ \A j \in 1..(ret.ptr - 1) : nodes_[j] = any

\* [wildcard, op, wildcard]: the second node
C8_Witness ==
    /\ ret.op = "get_starter_node"
    /\ nodes_ = <<any, "Convolution", any>>
    /\ ret.ptr = 2

\* C9: on a pattern without a node that is not the wildcard, get_starter_node()
\* ends in PreconditionViolation: no handle, no read past the last node.
C9_PreconditionViolation ==
    (ret.op = "get_starter_node" /\ \A i \in 1..Len(nodes_) : nodes_[i] = any) =>
        ret.status = "PreconditionViolation"

\* C11: load ends with SerializationError whenever one of the five fields
\* pass_name, pass_type, pass_backend, priority, enable is missing from the
\* record or has the wrong shape, and ends without error only on a record that
\* holds all five in their shapes.
Complete(obj) ==
    /\ FieldKeys \subseteq DOMAIN obj
    /\ \A k \in {"pass_name", "pass_type", "pass_backend"} : obj[k].tag = "string"
    /\ obj["priority"].tag = "number"
    /\ obj["enable"].tag = "bool"

C11_LoadFails ==
    ret.op = "load" =>
        /\ ~Complete(json[1]) => ret.status = "SerializationError"
        /\ Complete(json[1]) => ret.status = "ok"

\* a load of a record without "enable" has failed
C11_Witness ==
    /\ ret.op = "load"
    /\ ret.status = "SerializationError"
    /\ DOMAIN json[1] = FieldKeys \ {"enable"}

\* C12 as stated: a load that succeeds leaves the pass without attributes
\* (has_attr false and get_attr empty for every name) and with another creation
\* index than it had before.
C12_LoadResets ==
    [][ret'.op = "load" /\ ret'.status = "ok" =>
          /\ \A n \in AttrNames :
                 /\ ~has_attr(heap'[ret'.ptr], n)
                 /\ get_attr(heap'[ret'.ptr], n) = <<>>
          /\ get_pass_index(heap'[ret'.ptr]) # get_pass_index(heap[ret'.ptr])]_vars

\* C12 as amended: load neither reads nor changes the creation index and the
\* attributes; has_attr, get_attr and get_pass_index return after load what
\* they returned before it.
C12_LoadKeeps ==
    [][ret'.op = "load" =>
          /\ heap'[ret'.ptr].attrs_ = heap[ret'.ptr].attrs_
          /\ \A n \in AttrNames :
                 /\ has_attr(heap'[ret'.ptr], n) = has_attr(heap[ret'.ptr], n)
                 /\ get_attr(heap'[ret'.ptr], n) = get_attr(heap[ret'.ptr], n)
          /\ get_pass_index(heap'[ret'.ptr]) = get_pass_index(heap[ret'.ptr])]_vars

\* a pass with an attribute under "x" has loaded the whole record: it has the
\* record's name and still the attribute
C12_Witness ==
    /\ ret.op = "load"
    /\ ret.status = "ok"
    /\ get_pass_name(heap[1]) = NameOf[2]
    /\ has_attr(heap[1], "x")
    /\ get_pass_index(heap[1]) = CounterStart

\* C13: save writes one record with exactly the keys pass_name, pass_type,
\* pass_backend, priority and enable, holding the pass's name, backend,
\* priority and enable flag; pass_type is "Transformation" for a
\* transformation pass and "Analysis" otherwise; the creation index and the
\* attributes are not written, and save changes nothing of the pass.
C13_SaveRecord ==
    /\ [](ret.op = "save" =>
            /\ Len(json) = 1
            /\ DOMAIN json[1] = FieldKeys
            /\ json[1]["pass_name"] = JString(get_pass_name(heap[ret.ptr]))
            /\ json[1]["pass_backend"] = JString(get_pass_backend(heap[ret.ptr]))
            /\ json[1]["priority"] = JNumber(get_priority(heap[ret.ptr]))
            /\ json[1]["enable"] = JBool(get_enable(heap[ret.ptr]))
            /\ json[1]["pass_type"].tag = "string"
            /\ (json[1]["pass_type"].val = "Transformation"
                  <=> get_pass_type(heap[ret.ptr]) = kTransformation)
            /\ (json[1]["pass_type"].val = "Analysis"
                  <=> get_pass_type(heap[ret.ptr]) # kTransformation))
    /\ [][ret'.op = "save" => heap' = heap]_vars

\* an analysis pass with priority 10 and an attribute has been saved
C13_Witness ==
    /\ ret.op = "save"
    /\ get_pass_type(heap[1]) = kAnalysis
    /\ get_priority(heap[1]) = 10
    /\ has_attr(heap[1], "y")

\* C14: has_attr(name) is true exactly when set_attr was called with that name
\* on the pass at least once; calls with other names do not matter.
C14_HasAttr ==
    ret.op = "has_attr" =>
        (ret.status = "true" <=> AddedUnder(ret.ptr, ret.arg) # <<>>)

\* "x" was set twice and "y" never: has_attr("y") is false
C14_Witness ==
    /\ ret.op = "has_attr"
    /\ ret.arg = "y"
    /\ ret.status = "false"
    /\ Len(AddedUnder(1, "x")) = 2
    /\ has_attr(heap[1], "x")

\* C15: the kind of a pass is fixed when it is constructed: no set_priority,
\* set_attr, run, save or load changes what get_pass_type() returns, for a
\* pass of either kind.
C15_KindFixed ==
    [][\A p \in Ptrs : get_pass_type(heap'[p]) = get_pass_type(heap[p])]_vars

\* a transformation pass has loaded a record whose pass_type is "Analysis",
\* after set_priority and set_attr calls
C15_Witness ==
    /\ ret.op = "load"
    /\ ret.status = "ok"
    /\ json[1]["pass_type"] = JString("Analysis")
    /\ get_pass_name(heap[1]) = NameOf[2]
    /\ has_attr(heap[1], "y")
    /\ get_pass_type(heap[1]) = kTransformation

\* C16: after the registration and sort phase, get_passes() and
\* get_pass_ptr(name), called any number of times by any of several threads,
\* leave the registry as it was: the same passes, the same order of the
\* catalog, the same map from names to passes.
C16_LookupsChangeNothing ==
    [][/\ passes_' = passes_
       /\ passes_map_' = passes_map_
       /\ pass_counter' = pass_counter
       /\ heap' = heap]_vars

\* both threads have looked up a pass of a sorted catalog of three, one of them
\* the pass the sort moved to the front
C16_Witness ==
    /\ \A t \in Readers : pc[t] = "get_pass_ptr" /\ find_pass[t] # 0
    /\ Len(passes_) = 3
    /\ passes_[1] = 3
    /\ \E t \in Readers : find_pass[t] = 3
    /\ \E t \in Readers : find_pass[t] # 3

\* C17: the registry is constructed exactly once however many threads race on
\* their first pass_registry::get(): no thread has the instance before its one
\* construction is complete, the constructor never runs again, and what a thread
\* has registered through its instance is in the registry every thread uses.
C17_OneInstance ==
    /\ reg_inst.made <= 1
    /\ \A t \in Threads :
           pc[t] \in {"call", "constructed", "listed", "done"} =>
               reg_inst = Constructed
    /\ \A t \in Threads :
           pc[t] = "done" =>
               /\ find_pass[t] \in Range(passes_)
               /\ NameOf[t] \in DOMAIN passes_map_
               /\ passes_map_[NameOf[t]] = find_pass[t]

\* every thread has come through get() and registered its pass
C17_Witness ==
    /\ \A t \in Threads : pc[t] = "done"
    /\ reg_inst = Constructed
    /\ Len(passes_) = NumThreads
    /\ DOMAIN passes_map_ = Names(NumThreads)

\* C18: the reference register_pass returns is the stored pass: it is the pass
\* get_pass_ptr(name) finds and an entry of get_passes(), and stays so along a
\* chain of set_priority / set_attr calls on it, so what the chain sets is what
\* the registry (and the next sort_passes) sees.
C18_ReturnsStored ==
    Chained =>
        /\ ret.arg \in DOMAIN passes_map_
        /\ passes_map_[ret.arg] = ret.ptr
        /\ ret.ptr \in Range(get_passes)
        /\ get_pass_name(heap[ret.ptr]) = ret.arg

\* the second pass registered was given priority 10 and an attribute through
\* the returned reference; the entry of the map and of the catalog shows both
C18_Witness ==
    /\ ret.op = "chained"
    /\ Len(passes_) = 2
    /\ get_priority(heap[passes_map_[ret.arg]]) = 10
    /\ has_attr(heap[passes_map_[ret.arg]], "x")
    /\ get_priority(heap[passes_[2]]) = 10
    /\ passes_map_[ret.arg] = passes_[2]

\* C19: the catalog and the map describe the same passes: every pass of
\* get_passes() is found by get_pass_ptr under its current name, and every name
\* of the map leads to a catalogued pass with that name.
C19_IndexConsistent ==
    /\ \A i \in 1..Len(passes_) :
           LET n == get_pass_name(heap[passes_[i]])
           IN  n \in DOMAIN passes_map_ /\ passes_map_[n] = passes_[i]
    /\ \A n \in DOMAIN passes_map_ :
           /\ passes_map_[n] \in Range(passes_)
           /\ get_pass_name(heap[passes_map_[n]]) = n

\* C20: sort_passes only reorders the catalog: the same entries, each as often
\* as before; the map, the counter and every pass unchanged; and a sorted
\* catalog sorts to itself.
C20_PureReordering ==
    /\ [][ret'.op = "sort_passes" =>
            /\ heap' = heap
            /\ passes_map_' = passes_map_
            /\ pass_counter' = pass_counter
            /\ Len(passes_') = Len(passes_)
            /\ \A p \in Ptrs : Count(passes_', p) = Count(passes_, p)
            /\ sort_list(passes_', heap') = passes_']_vars
    /\ [][ret.op = "sort_passes" /\ ret'.op = "sort_passes" =>
            passes_' = passes_]_vars

\* three passes, the last with the highest priority, the first two equal, have
\* been sorted into another order than they were registered in
C20_Witness ==
    /\ ret.op = "sort_passes"
    /\ Len(passes_) = 3
    /\ passes_ = <<3, 1, 2>>
    /\ get_priority(heap[1]) = get_priority(heap[2])

====
